---- MODULE Spec2Model ----
(***************************************************************************)
(* A model of the datetime crate: the civil calendar engine                *)
(* (src/src/cal/datetime.rs) and the time zone transition resolver         *)
(* (src/src/cal/zone.rs).                                                  *)
(*                                                                         *)
(* Months are the discriminants 1..12 of the Month enum, weekdays the      *)
(* discriminants 0..6 of the Weekday enum (Sunday = 0).  A Result is a     *)
(* record with an "ok" field; Err(OutOfRange) is ErrOutOfRange.            *)
(***************************************************************************)
EXTENDS Integers, Sequences, FiniteSets, TLC

VARIABLES
    pc,     \* "call" before the operation has run, "done" after it returned
    op,     \* the operation being called
    arg,    \* its arguments
    res,    \* its result (NoResult before it returned)
    tz      \* the FixedTimespanSet the time zone operations work on

vars == <<pc, op, arg, res, tz>>

----------------------------------------------------------------------------
(* Bounds of the model.                                                    *)

\* Years are taken within YearSpan of each anchor year.
YearSpan == 1

\* Day-of-month inputs run from 1 - DayMargin to 31 + DayMargin.
DayMargin == 2

\* Second counts given to LocalDateTime::at lie within AtSpan whole days
\* (and AtSecs seconds) of an anchor.
AtSpan == 2

AtSecs == 1

\* Largest absolute offset, in seconds, of a model timespan.
MaxOff == 2

\* Largest number of transitions in a model table.
MaxRest == 2

\* Transition instants are ZoneBase + 0 .. ZoneBase + TMax.
TMax == 5

\* Local readings are the first LMax + 1 seconds of the base day.
LMax == 7

\* Day-counts given to days_to_weekday lie within DayCountSpan of an anchor.
DayCountSpan == 10

\* Operand durations have seconds in -DurSecs .. DurSecs.
DurSecs == 1

\* Running durations and instants keep their seconds in -DurMax .. DurMax.
DurMax == 3

\* Durations are multiplied by amounts in -MaxAmount .. MaxAmount.
MaxAmount == 2

\* Running instants keep their milliseconds in -InstMsMax .. InstMsMax.
InstMsMax == 1200

\* Second counts given to Offset::of_seconds lie within OffsetMargin of an
\* anchor.
OffsetMargin == 2

YearAnchors == {-400, -100, -4, 0, 100, 1100, 1500, 1600, 1700, 1800, 1900, 1970, 2000, 2004, 2008, 2009, 2016, 2100, 12345}

Years == UNION { (a - YearSpan)..(a + YearSpan) : a \in YearAnchors }

Months == 1..12

DayInputs == (1 - DayMargin)..(31 + DayMargin)

Weekdays == 0..6

----------------------------------------------------------------------------
(* Rust integer arithmetic: / truncates toward zero and % takes the sign   *)
(* of the dividend.  Divisors are positive everywhere in the crate.        *)

TruncDiv(a, b) == IF a >= 0 THEN a \div b ELSE -((-a) \div b)

TruncRem(a, b) == a - b * TruncDiv(a, b)

\* is_within with the end of the range included.
is_within_inclusive(x, start, end) == x >= start /\ x <= end

\* util.rs: self >= range.start && self < range.end
is_within(x, start, end) == x >= start /\ x < end

----------------------------------------------------------------------------
(* Constants of cal/datetime.rs.                                           *)

DAYS_IN_4Y == 365 * 4 + 1

DAYS_IN_100Y == 365 * 100 + 24

DAYS_IN_400Y == 365 * 400 + 97

SECONDS_IN_DAY == 86400

EPOCH_DIFFERENCE == 30 * 365 + 7 + 31 + 29

TIME_TRIANGLE ==
    << 31 + 30 + 31 + 30 + 31 + 31 + 30 + 31 + 30 + 31 + 31,
       31 + 30 + 31 + 30 + 31 + 31 + 30 + 31 + 30 + 31,
       31 + 30 + 31 + 30 + 31 + 31 + 30 + 31 + 30,
       31 + 30 + 31 + 30 + 31 + 31 + 30 + 31,
       31 + 30 + 31 + 30 + 31 + 31 + 30,
       31 + 30 + 31 + 30 + 31 + 31,
       31 + 30 + 31 + 30 + 31,
       31 + 30 + 31 + 30,
       31 + 30 + 31,
       31 + 30,
       31 >>

ErrOutOfRange == [ok |-> FALSE, err |-> "OutOfRange"]

\* A failed assert! ends the call with a panic.
Panic == [kind |-> "panic"]

----------------------------------------------------------------------------
(* Month                                                                   *)

days_in_month(month, leap_year) ==
    IF month = 2 THEN (IF leap_year THEN 29 ELSE 28)
    ELSE IF month \in {4, 6, 9, 11} THEN 30
    ELSE 31

days_before_start(month) ==
    <<0, 31, 59, 90, 120, 151, 181, 212, 243, 273, 304, 334>>[month]

\* Month::from_zero(n), unwrapped: n in 0..11 gives the month n + 1.
Month_from_zero(n) == n + 1

----------------------------------------------------------------------------
(* Weekday                                                                 *)

days_from_monday_as_one(weekday) == IF weekday = 0 THEN 7 ELSE weekday

----------------------------------------------------------------------------
(* split_cycles, days_to_weekday                                           *)

split_cycles(number_of_periods, cycle_length) ==
    LET cycles    == TruncDiv(number_of_periods, cycle_length)
        remainder == TruncRem(number_of_periods, cycle_length)
    IN  IF remainder < 0
        THEN <<cycles - 1, remainder + cycle_length>>
        ELSE <<cycles, remainder>>

\* days_to_weekday with the remainder left as Rust's % gives it (not wrapped
\* forward when negative).
days_to_weekday_truncated(days) ==
    TruncRem(days + 3, 7)

days_to_weekday(days) ==
    LET weekday == TruncRem(days + 3, 7)
    IN  IF weekday < 0 THEN weekday + 7 ELSE weekday

----------------------------------------------------------------------------
(* YMD                                                                     *)

YMD(year, month, day) == [year |-> year, month |-> month, day |-> day]

\* leap_year_calculations with the century rule left out (every fourth year
\* a leap year).
leap_year_calculations_julian(ymd) ==
    LET year                == ymd.year - 2000
        sc                  == split_cycles(year, 400)
        num_400y_cycles     == sc[1]
        remainder0          == sc[2]
        currently_leap_year == TruncRem(remainder0, 4) = 0
        num_100y_cycles     == TruncDiv(remainder0, 100)
        remainder1          == remainder0 - num_100y_cycles * 100
        leap_years_elapsed  == TruncDiv(remainder1, 4)
                               + 97 * num_400y_cycles
                               + 24 * num_100y_cycles
                               - (IF currently_leap_year THEN 1 ELSE 0)
    IN  <<leap_years_elapsed, currently_leap_year>>

leap_year_calculations(ymd) ==
    LET year                == ymd.year - 2000
        sc                  == split_cycles(year, 400)
        num_400y_cycles     == sc[1]
        remainder0          == sc[2]
        currently_leap_year == remainder0 = 0
                               \/ (TruncRem(remainder0, 100) # 0 /\ TruncRem(remainder0, 4) = 0)
        num_100y_cycles     == TruncDiv(remainder0, 100)
        remainder1          == remainder0 - num_100y_cycles * 100
        leap_years_elapsed  == TruncDiv(remainder1, 4)
                               + 97 * num_400y_cycles
                               + 24 * num_100y_cycles
                               - (IF currently_leap_year THEN 1 ELSE 0)
    IN  <<leap_years_elapsed, currently_leap_year>>

\* is_valid that accepts day numbers up to 31 in every month.
is_valid_any_month(ymd, is_leap_year) ==
    ymd.day >= 1 /\ ymd.day <= 31

is_valid(ymd, is_leap_year) ==
    ymd.day >= 1 /\ ymd.day <= days_in_month(ymd.month, is_leap_year)

\* to_days_since_epoch without the extra day for March and later of a leap
\* year.
to_days_since_epoch_no_leap_day(ymd) ==
    LET years             == ymd.year - 2000
        lyc               == leap_year_calculations(ymd)
        leap_days_elapsed == lyc[1]
        is_leap_year      == lyc[2]
    IN  IF ~is_valid(ymd, is_leap_year)
        THEN ErrOutOfRange
        ELSE [ok   |-> TRUE,
              days |-> years * 365
                       + 10958
                       + leap_days_elapsed
                       + days_before_start(ymd.month)
                       + (ymd.day - 1)]

to_days_since_epoch(ymd) ==
    LET years             == ymd.year - 2000
        lyc               == leap_year_calculations(ymd)
        leap_days_elapsed == lyc[1]
        is_leap_year      == lyc[2]
    IN  IF ~is_valid(ymd, is_leap_year)
        THEN ErrOutOfRange
        ELSE [ok   |-> TRUE,
              days |-> years * 365
                       + 10958
                       + leap_days_elapsed
                       + days_before_start(ymd.month)
                       + (IF is_leap_year /\ ymd.month >= 3 THEN 1 ELSE 0)
                       + (ymd.day - 1)]

\* iter.rs, Year::is_leap_year
Year_is_leap_year(year) == leap_year_calculations(YMD(year, 1, 1))[2]

----------------------------------------------------------------------------
(* LocalDate                                                               *)

\* Index (from 1) of the first entry of TIME_TRIANGLE that is <= remainder,
\* or 0 when there is none.
TriangleFind(remainder) ==
    LET hits == { i \in 1..11 : TIME_TRIANGLE[i] <= remainder }
    IN  IF hits = {} THEN 0
        ELSE CHOOSE i \in hits : \A j \in hits : i <= j

\* The cycle decomposition at the start of from_days_since_epoch: the whole
\* 400-year, 100-year and 4-year cycles and years in the day-count, and the
\* days left within the year.
cycle_decomposition(days) ==
    LET sc              == split_cycles(days, DAYS_IN_400Y)
        num_400y_cycles == sc[1]
        remainder0      == sc[2]
        num_100y_cycles == TruncDiv(remainder0, DAYS_IN_100Y)
        remainder1      == remainder0 - num_100y_cycles * DAYS_IN_100Y
        num_4y_cycles   == TruncDiv(remainder1, DAYS_IN_4Y)
        remainder2      == remainder1 - num_4y_cycles * DAYS_IN_4Y
        years           == TruncDiv(remainder2, 365)
        remainder       == remainder2 - years * 365
    IN  [num_400y_cycles |-> num_400y_cycles,
         num_100y_cycles |-> num_100y_cycles,
         num_4y_cycles   |-> num_4y_cycles,
         years           |-> years,
         remainder       |-> remainder]

\* from_days_since_epoch that takes every year to have 365 days when it
\* works out the day of the year.
from_days_since_epoch_365(days) ==
    LET sc              == split_cycles(days, DAYS_IN_400Y)
        num_400y_cycles == sc[1]
        remainder0      == sc[2]
        num_100y_cycles == TruncDiv(remainder0, DAYS_IN_100Y)
        remainder1      == remainder0 - num_100y_cycles * DAYS_IN_100Y
        num_4y_cycles   == TruncDiv(remainder1, DAYS_IN_4Y)
        remainder2      == remainder1 - num_4y_cycles * DAYS_IN_4Y
        years0          == TruncDiv(remainder2, 365)
        remainder       == remainder2 - years0 * 365
        days_this_year  == 365
        day_of_year0    == remainder + days_this_year - 306
        day_of_year     == IF day_of_year0 >= days_this_year
                           THEN day_of_year0 - days_this_year
                           ELSE day_of_year0
        years1          == years0 + 4 * num_4y_cycles
                                  + 100 * num_100y_cycles
                                  + 400 * num_400y_cycles
        hit             == TriangleFind(remainder)
        month0          == IF hit # 0 THEN 11 - (hit - 1) ELSE 0
        month_days      == IF hit # 0 THEN remainder - TIME_TRIANGLE[hit] ELSE remainder
        month1          == month0 + 2
        years           == IF month1 >= 12 THEN years1 + 1 ELSE years1
        month           == IF month1 >= 12 THEN month1 - 12 ELSE month1
    IN  [ymd     |-> YMD(years + 2000, Month_from_zero(month), month_days + 1),
         yearday |-> day_of_year + 1,
         weekday |-> days_to_weekday(days)]

from_days_since_epoch(days) ==
    LET sc              == split_cycles(days, DAYS_IN_400Y)
        num_400y_cycles == sc[1]
        remainder0      == sc[2]
        num_100y_cycles == TruncDiv(remainder0, DAYS_IN_100Y)
        remainder1      == remainder0 - num_100y_cycles * DAYS_IN_100Y
        num_4y_cycles   == TruncDiv(remainder1, DAYS_IN_4Y)
        remainder2      == remainder1 - num_4y_cycles * DAYS_IN_4Y
        years0          == TruncDiv(remainder2, 365)
        remainder       == remainder2 - years0 * 365
        days_this_year  == IF years0 = 0 /\ ~(num_4y_cycles = 0 /\ num_100y_cycles # 0)
                           THEN 366 ELSE 365
        day_of_year0    == remainder + days_this_year - 306
        day_of_year     == IF day_of_year0 >= days_this_year
                           THEN day_of_year0 - days_this_year
                           ELSE day_of_year0
        years1          == years0 + 4 * num_4y_cycles
                                  + 100 * num_100y_cycles
                                  + 400 * num_400y_cycles
        hit             == TriangleFind(remainder)
        month0          == IF hit # 0 THEN 11 - (hit - 1) ELSE 0
        month_days      == IF hit # 0 THEN remainder - TIME_TRIANGLE[hit] ELSE remainder
        month1          == month0 + 2
        years           == IF month1 >= 12 THEN years1 + 1 ELSE years1
        month           == IF month1 >= 12 THEN month1 - 12 ELSE month1
    IN  [ymd     |-> YMD(years + 2000, Month_from_zero(month), month_days + 1),
         yearday |-> day_of_year + 1,
         weekday |-> days_to_weekday(days)]

LocalDate_ymd(year, month, day) ==
    LET r == to_days_since_epoch(YMD(year, month, day))
    IN  IF r.ok
        THEN [ok |-> TRUE, date |-> from_days_since_epoch(r.days - EPOCH_DIFFERENCE)]
        ELSE ErrOutOfRange

\* yd that counts the yearday from 0 (without the - 1).
LocalDate_yd_from_zero(year, yearday) ==
    IF is_within(yearday, 0, 367)
    THEN LET r == to_days_since_epoch(YMD(year, 1, 1))
         IN  IF r.ok
             THEN [ok   |-> TRUE,
                   date |-> from_days_since_epoch(r.days + yearday - EPOCH_DIFFERENCE)]
             ELSE ErrOutOfRange
    ELSE ErrOutOfRange

LocalDate_yd(year, yearday) ==
    IF is_within(yearday, 0, 367)
    THEN LET r == to_days_since_epoch(YMD(year, 1, 1))
         IN  IF r.ok
             THEN [ok   |-> TRUE,
                   date |-> from_days_since_epoch(r.days + yearday - 1 - EPOCH_DIFFERENCE)]
             ELSE ErrOutOfRange
    ELSE ErrOutOfRange

LocalDate_ywd(year, week, weekday) ==
    LET jan_4      == YMD(year, 1, 4)
        correction == days_from_monday_as_one(
                          days_to_weekday(to_days_since_epoch(jan_4).days - EPOCH_DIFFERENCE)) + 3
        yearday    == 7 * week + days_from_monday_as_one(weekday) - correction
    IN  IF yearday <= 0
        THEN LET is_leap_year == leap_year_calculations(YMD(year - 1, 1, 1))[2]
                 days_in_year == IF is_leap_year THEN 366 ELSE 365
             IN  LocalDate_yd(year - 1, days_in_year + yearday)
        ELSE LET is_leap_year == leap_year_calculations(YMD(year, 1, 1))[2]
                 days_in_year == IF is_leap_year THEN 366 ELSE 365
             IN  IF yearday >= days_in_year
                 THEN LocalDate_yd(year + 1, yearday - days_in_year)
                 ELSE LocalDate_yd(year, yearday)

----------------------------------------------------------------------------
(* LocalTime                                                               *)

LocalTime(hour, minute, second, millisecond) ==
    [hour |-> hour, minute |-> minute, second |-> second, millisecond |-> millisecond]

from_seconds_and_milliseconds_since_midnight(seconds, millisecond_of_second) ==
    LocalTime(TruncDiv(TruncDiv(seconds, 60), 60),
              TruncRem(TruncDiv(seconds, 60), 60),
              TruncRem(seconds, 60),
              millisecond_of_second)

LocalTime_hm(hour, minute) ==
    IF (is_within(hour, 0, 24) /\ is_within(minute, 0, 60))
       \/ (hour = 24 /\ minute = 0)
    THEN [ok |-> TRUE, time |-> LocalTime(hour, minute, 0, 0)]
    ELSE ErrOutOfRange

LocalTime_hms(hour, minute, second) ==
    IF (is_within(hour, 0, 24) /\ is_within(minute, 0, 60) /\ is_within(second, 0, 60))
       \/ (hour = 24 /\ minute = 0 /\ second = 0)
    THEN [ok |-> TRUE, time |-> LocalTime(hour, minute, second, 0)]
    ELSE ErrOutOfRange

LocalTime_hms_ms(hour, minute, second, millisecond) ==
    IF /\ is_within(hour, 0, 24) /\ is_within(minute, 0, 60)
       /\ is_within(second, 0, 60) /\ is_within(millisecond, 0, 1000)
    THEN [ok |-> TRUE, time |-> LocalTime(hour, minute, second, millisecond)]
    ELSE ErrOutOfRange

to_seconds(time) == time.hour * 3600 + time.minute * 60 + time.second

----------------------------------------------------------------------------
(* Duration and Instant                                                    *)

Duration_of(seconds) == [seconds |-> seconds, milliseconds |-> 0]

Duration_of_ms(seconds, milliseconds) ==
    IF milliseconds >= 0 /\ milliseconds <= 999
    THEN [seconds |-> seconds, milliseconds |-> milliseconds]
    ELSE Panic

\* Addition that drops the second carried out of the milliseconds.
Duration_add_no_carry(self, rhs) ==
    LET ms == self.milliseconds + rhs.milliseconds
    IN  IF ms >= 1000
        THEN Duration_of_ms(self.seconds + rhs.seconds, ms - 1000)
        ELSE Duration_of_ms(self.seconds + rhs.seconds, ms)

Duration_add(self, rhs) ==
    LET ms == self.milliseconds + rhs.milliseconds
    IN  IF ms >= 1000
        THEN Duration_of_ms(self.seconds + rhs.seconds + 1, ms - 1000)
        ELSE Duration_of_ms(self.seconds + rhs.seconds, ms)

Duration_sub(self, rhs) ==
    LET ms == self.milliseconds - rhs.milliseconds
    IN  IF ms < 0
        THEN Duration_of_ms(self.seconds - rhs.seconds - 1, ms + 1000)
        ELSE Duration_of_ms(self.seconds - rhs.seconds, ms)

Duration_mul(self, amount) ==
    LET ms == self.milliseconds * amount
    IN  Duration_of_ms(self.seconds * amount + TruncDiv(ms, 1000), TruncRem(ms, 1000))

Instant_at_ms(seconds, milliseconds) ==
    [seconds |-> seconds, milliseconds |-> milliseconds]

Instant_add(instant, duration) ==
    [seconds      |-> instant.seconds + duration.seconds,
     milliseconds |-> instant.milliseconds + duration.milliseconds]

Instant_sub(instant, duration) ==
    [seconds      |-> instant.seconds - duration.seconds,
     milliseconds |-> instant.milliseconds - duration.milliseconds]

----------------------------------------------------------------------------
(* cal/offset.rs: Offset.  offset_seconds is Some(seconds) for every       *)
(* offset the two checked constructors return.                             *)

Offset(seconds) == [offset_seconds |-> seconds]

\* Error::OutOfRange and Error::SignMismatch of cal/offset.rs
OffsetErrOutOfRange == [ok |-> FALSE, err |-> "OutOfRange"]

OffsetErrSignMismatch == [ok |-> FALSE, err |-> "SignMismatch"]

Offset_of_seconds(seconds) ==
    IF is_within(seconds, -86400, 86401)
    THEN [ok |-> TRUE, offset |-> Offset(seconds)]
    ELSE OffsetErrOutOfRange

\* of_hours_and_minutes without the test of the signs.
Offset_of_hours_and_minutes_any_sign(hours, minutes) ==
    IF hours <= -24 \/ hours >= 24 \/ minutes <= -60 \/ minutes >= 60
    THEN OffsetErrOutOfRange
    ELSE Offset_of_seconds(hours * (60 * 60) + minutes * 60)

Offset_of_hours_and_minutes(hours, minutes) ==
    IF (hours > 0 /\ minutes < 0) \/ (hours < 0 /\ minutes > 0)
    THEN OffsetErrSignMismatch
    ELSE IF hours <= -24 \/ hours >= 24 \/ minutes <= -60 \/ minutes >= 60
    THEN OffsetErrOutOfRange
    ELSE Offset_of_seconds(hours * (60 * 60) + minutes * 60)

Offset_hours(offset) == TruncDiv(TruncDiv(offset.offset_seconds, 60), 60)

Offset_minutes(offset) == TruncRem(TruncDiv(offset.offset_seconds, 60), 60)

Offset_seconds(offset) == TruncRem(offset.offset_seconds, 60)

----------------------------------------------------------------------------
(* LocalDateTime                                                           *)

LocalDateTime_new(date, time) == [date |-> date, time |-> time]

LocalDateTime_at_ms(seconds_since_1970_epoch, millisecond_of_second) ==
    LET seconds == seconds_since_1970_epoch - EPOCH_DIFFERENCE * SECONDS_IN_DAY
        sc      == split_cycles(seconds, SECONDS_IN_DAY)
        days    == sc[1]
        secs    == sc[2]
    IN  [date |-> from_days_since_epoch(days),
         time |-> from_seconds_and_milliseconds_since_midnight(secs, millisecond_of_second)]

LocalDateTime_at(seconds_since_1970_epoch) ==
    LocalDateTime_at_ms(seconds_since_1970_epoch, 0)

LocalDateTime_from_instant(instant) ==
    LocalDateTime_at_ms(instant.seconds, instant.milliseconds)

\* The unwrap() cannot fail: is_valid holds of every ymd that
\* from_days_since_epoch produces.
LocalDateTime_to_instant(ldt) ==
    LET seconds == to_days_since_epoch(ldt.date.ymd).days * SECONDS_IN_DAY
                   + to_seconds(ldt.time)
    IN  Instant_at_ms(seconds, ldt.time.millisecond)

LocalDateTime_add(ldt, duration) ==
    LocalDateTime_from_instant(Instant_add(LocalDateTime_to_instant(ldt), duration))

LocalDateTime_sub(ldt, duration) ==
    LocalDateTime_from_instant(Instant_sub(LocalDateTime_to_instant(ldt), duration))

----------------------------------------------------------------------------
(* The proleptic Gregorian calendar, stated independently of the code:     *)
(* what the properties below compare the code with.                        *)

RefIsLeap(year) == year % 4 = 0 /\ (year % 100 # 0 \/ year % 400 = 0)

RefDaysInMonth(year, month) ==
    IF month = 2 THEN (IF RefIsLeap(year) THEN 29 ELSE 28)
    ELSE IF month \in {4, 6, 9, 11} THEN 30
    ELSE 31

RefValid(ymd) == ymd.day >= 1 /\ ymd.day <= RefDaysInMonth(ymd.year, ymd.month)

RefNextDay(ymd) ==
    IF ymd.day < RefDaysInMonth(ymd.year, ymd.month)
    THEN YMD(ymd.year, ymd.month, ymd.day + 1)
    ELSE IF ymd.month < 12
         THEN YMD(ymd.year, ymd.month + 1, 1)
         ELSE YMD(ymd.year + 1, 1, 1)

RECURSIVE RefDaysBeforeMonth(_, _)
RefDaysBeforeMonth(year, month) ==
    IF month = 1 THEN 0
    ELSE RefDaysBeforeMonth(year, month - 1) + RefDaysInMonth(year, month - 1)

\* The 1-based ordinal of a date within its year.
RefOrdinal(ymd) == RefDaysBeforeMonth(ymd.year, ymd.month) + ymd.day

\* Days from 1 January 1970 to the given date (floored divisions).
RefDaysFromCivil(ymd) ==
    LET y   == IF ymd.month <= 2 THEN ymd.year - 1 ELSE ymd.year
        era == y \div 400
        yoe == y - era * 400
        mp  == IF ymd.month > 2 THEN ymd.month - 3 ELSE ymd.month + 9
        doy == (153 * mp + 2) \div 5 + ymd.day - 1
        doe == yoe * 365 + yoe \div 4 - yoe \div 100 + doy
    IN  era * 146097 + doe - 719468

\* 1 January 1970 was a Thursday (4, with Sunday = 0).
RefWeekday(ymd) == (RefDaysFromCivil(ymd) + 4) % 7

RefDaysInYear(year) == IF RefIsLeap(year) THEN 366 ELSE 365

\* The number of ISO weeks of a year: 53 when 1 January is a Thursday, or a
\* Wednesday in a leap year, else 52.
RefWeeksInYear(year) ==
    LET jan_1 == RefWeekday(YMD(year, 1, 1))
    IN  IF jan_1 = 4 \/ (jan_1 = 3 /\ RefIsLeap(year)) THEN 53 ELSE 52

\* Days from 1 January 1970 to the given weekday of ISO week `week` of ISO
\* year `year`: the Monday of the week that holds 4 January, plus whole
\* weeks, plus the weekday's distance from Monday.
RefIsoDay(year, week, weekday) ==
    LET jan_4 == YMD(year, 1, 4)
    IN  RefDaysFromCivil(jan_4) - ((RefWeekday(jan_4) + 6) % 7)
            + 7 * (week - 1) + ((weekday + 6) % 7)

\* The times of day LocalTime's constructors are to accept.
RefTimeOk(hour, minute, second, millisecond) ==
    \/ /\ hour \in 0..23 /\ minute \in 0..59
       /\ second \in 0..59 /\ millisecond \in 0..999
    \/ /\ hour = 24 /\ minute = 0 /\ second = 0 /\ millisecond = 0

\* The wall-clock reading counted in seconds as if it were UTC.
RefReading(local) ==
    RefDaysFromCivil(local.date.ymd) * 86400
        + local.time.hour * 3600 + local.time.minute * 60 + local.time.second

----------------------------------------------------------------------------
(* The calendar engine as a state machine: a call of one of the public     *)
(* operations with arguments from the bounded input sets, then its return. *)

NoResult == [pending |-> TRUE]

\* The table of zone.rs's tests with no transitions.
NONE == [first |-> [offset |-> 0], rest |-> <<>>]

YeardayInputs == (1 - DayMargin)..(366 + DayMargin)

WeekInputs == (1 - DayMargin)..(53 + DayMargin)

AtAnchors == {0, 1000000000, -1000000000, 1456704000, 951782400, 68169600}

AtInputs ==
    { a + k * SECONDS_IN_DAY + j :
        a \in AtAnchors, k \in (-AtSpan)..AtSpan, j \in (-AtSecs)..AtSecs }

\* The years whose second counts fit the integers of the model checker.
InstantYears == { y \in Years : y >= 1902 /\ y <= 2037 }

TimeInputs == { LocalTime_hms(h, mi, sec).time :
                  <<h, mi, sec>> \in {<<0, 0, 0>>, <<1, 46, 40>>, <<23, 59, 59>>} }

\* Internal day-counts (days since 1 March 2000): around the internal epoch,
\* the Unix epoch and a far past and future day.
DayCountInputs ==
    { a + k : a \in {0, -EPOCH_DIFFERENCE, -1000000, 1000000},
              k \in (-DayCountSpan)..DayCountSpan }

HourInputs == {-1, 0, 12, 23, 24, 25}

MinuteInputs == {-1, 0, 30, 59, 60}

MillisecondInputs == {-1, 0, 500, 999, 1000}

\* i32 arguments of Offset::of_seconds: around both ends of the range and
\* zero, the values of the tests, and far outside.
OffsetSecondsInputs ==
    { a + k : a \in {-86400, 0, 86400}, k \in (-OffsetMargin)..OffsetMargin }
        \cup {1234, 100000, -100000, 2147483647, -2147483647}

\* i8 arguments of Offset::of_hours_and_minutes.
OffsetHourInputs == ((-26)..26) \cup {-128, 127}

OffsetMinuteInputs == ((-62)..62) \cup {-128, 127}

\* Internal day-counts given to from_days_since_epoch: around the internal
\* epoch, the Unix epoch, and the ends of the first 4-year, 100-year and
\* 400-year cycles after and before the internal epoch.
CycleDayInputs ==
    { a + k : a \in {0, -EPOCH_DIFFERENCE, DAYS_IN_4Y, DAYS_IN_100Y, DAYS_IN_400Y,
                     -DAYS_IN_400Y, 2 * DAYS_IN_100Y + 7 * DAYS_IN_4Y},
              k \in (-DayCountSpan)..DayCountSpan }

Call(name, value) ==
    /\ pc = "call"
    /\ op = name
    /\ arg = value
    /\ res = NoResult

Init ==
    /\ tz = NONE
    /\ \/ \E y \in Years, m \in Months, d \in DayInputs :
            Call("ymd", YMD(y, m, d))
       \/ \E y \in Years, m \in Months, d \in DayInputs :
            Call("to_days_since_epoch", YMD(y, m, d))
       \/ \E y \in Years, n \in YeardayInputs :
            Call("yd", [year |-> y, yearday |-> n])
       \/ \E y \in Years, w \in WeekInputs, wd \in Weekdays :
            Call("ywd", [year |-> y, week |-> w, weekday |-> wd])
       \/ \E y \in Years :
            Call("is_leap_year", [year |-> y])
       \/ \E s \in AtInputs :
            Call("at", [seconds |-> s])
       \/ \E d \in DayCountInputs :
            Call("days_to_weekday", [days |-> d])
       \/ \E h \in HourInputs, mi \in MinuteInputs :
            Call("hm", [hour |-> h, minute |-> mi])
       \/ \E h \in HourInputs, mi \in MinuteInputs, sec \in MinuteInputs :
            Call("hms", [hour |-> h, minute |-> mi, second |-> sec])
       \/ \E h \in HourInputs, mi \in MinuteInputs, sec \in MinuteInputs,
             ms \in MillisecondInputs :
            Call("hms_ms", LocalTime(h, mi, sec, ms))
       \/ \E d \in CycleDayInputs :
            Call("from_days_since_epoch", [days |-> d])
       \/ \E sec \in OffsetSecondsInputs :
            Call("of_seconds", [seconds |-> sec])
       \/ \E h \in OffsetHourInputs, mi \in OffsetMinuteInputs :
            Call("of_hours_and_minutes", [hours |-> h, minutes |-> mi])
       \/ \E y \in InstantYears, m \in Months, d \in DayInputs, t \in TimeInputs :
            /\ LocalDate_ymd(y, m, d).ok
            /\ Call("to_instant", LocalDateTime_new(LocalDate_ymd(y, m, d).date, t))

Return(name, value) ==
    /\ pc = "call"
    /\ op = name
    /\ res' = value
    /\ pc' = "done"
    /\ UNCHANGED <<op, arg, tz>>

Ymd == Return("ymd", LocalDate_ymd(arg.year, arg.month, arg.day))

ToDaysSinceEpoch == Return("to_days_since_epoch", to_days_since_epoch(arg))

Yd == Return("yd", LocalDate_yd(arg.year, arg.yearday))

Ywd == Return("ywd", LocalDate_ywd(arg.year, arg.week, arg.weekday))

IsLeapYear ==
    Return("is_leap_year",
           [year |-> Year_is_leap_year(arg.year),
            ymd  |-> leap_year_calculations(YMD(arg.year, 1, 1))[2]])

At == Return("at", LocalDateTime_at(arg.seconds))

ToInstant == Return("to_instant", LocalDateTime_to_instant(arg))

Hm == Return("hm", LocalTime_hm(arg.hour, arg.minute))

Hms == Return("hms", LocalTime_hms(arg.hour, arg.minute, arg.second))

HmsMs ==
    Return("hms_ms", LocalTime_hms_ms(arg.hour, arg.minute, arg.second, arg.millisecond))

DaysToWeekday == Return("days_to_weekday", [weekday |-> days_to_weekday(arg.days)])

FromDaysSinceEpoch ==
    Return("from_days_since_epoch",
           [cycles |-> cycle_decomposition(arg.days),
            date   |-> from_days_since_epoch(arg.days)])

OfSeconds == Return("of_seconds", Offset_of_seconds(arg.seconds))

OfHoursAndMinutes ==
    Return("of_hours_and_minutes", Offset_of_hours_and_minutes(arg.hours, arg.minutes))

Next ==
    \/ Ymd \/ ToDaysSinceEpoch \/ Yd \/ Ywd \/ IsLeapYear \/ At \/ ToInstant
    \/ DaysToWeekday \/ Hm \/ Hms \/ HmsMs
    \/ OfSeconds \/ OfHoursAndMinutes \/ FromDaysSinceEpoch

Spec == Init /\ [][Next]_vars

----------------------------------------------------------------------------
(* Properties of the calendar engine.                                      *)

Done(name) == pc = "done" /\ op = name

\* C1: for every valid (year, month, day), 29 February of leap years
\* included, LocalDate::ymd returns Ok of a date with that same year, month
\* and day.
C1_YmdKeepsFields ==
    (Done("ymd") /\ is_valid(arg, Year_is_leap_year(arg.year)))
        => (res.ok /\ res.date.ymd = arg)

DateTimeOf(year, month, day, hour, minute, second) ==
    [ymd |-> YMD(year, month, day), time |-> LocalTime(hour, minute, second, 0)]

FieldsOf(ldt) == [ymd |-> ldt.date.ymd, time |-> ldt.time]

\* C2: LocalDateTime::at(s) is the Gregorian UTC date and time of Unix
\* second s: at(0) is 1970-01-01T00:00:00, at(s + 86400) has the time of
\* at(s) and the date of the next calendar day, and the fixtures hold.
C2_AtIsGregorian ==
    Done("at") =>
        /\ arg.seconds = 0 => FieldsOf(res) = DateTimeOf(1970, 1, 1, 0, 0, 0)
        /\ arg.seconds = 1000000000 => FieldsOf(res) = DateTimeOf(2001, 9, 9, 1, 46, 40)
        /\ arg.seconds = -1000000000 => FieldsOf(res) = DateTimeOf(1938, 4, 24, 22, 13, 20)
        /\ arg.seconds = 1456704000 => FieldsOf(res) = DateTimeOf(2016, 2, 29, 0, 0, 0)
        /\ LET later == LocalDateTime_at(arg.seconds + SECONDS_IN_DAY)
           IN  /\ later.time = res.time
               /\ later.date.ymd = RefNextDay(res.date.ymd)

\* C7: LocalDate::ymd returns Err(OutOfRange) exactly when day < 1 or
\* day > the number of days of that month in that year.
C7_YmdErrIffDayOutOfRange ==
    Done("ymd") =>
        /\ res.ok <=> RefValid(arg)
        /\ ~res.ok => res = ErrOutOfRange
        /\ (arg.month = 2 /\ arg.day = 29 /\ arg.year \in {1100, 1500, 2100}) => ~res.ok
        /\ (arg.month = 2 /\ arg.day = 30) => ~res.ok
        /\ (arg.month = 2 /\ arg.day = 29 /\ arg.year \in {1600, 2000, 2004}) => res.ok

C7_Witness ==
    Done("ymd") /\ arg = YMD(2100, 2, 29) /\ res = ErrOutOfRange

\* C8: Year::is_leap_year and the boolean of YMD::leap_year_calculations are
\* true exactly for years divisible by 4 and (not by 100, or by 400).
C8_LeapYearRule ==
    Done("is_leap_year") =>
        /\ res.year = RefIsLeap(arg.year)
        /\ res.ymd = RefIsLeap(arg.year)
        /\ arg.year \in {1600, 2000, 2004, 2008} => res.year
        /\ arg.year \in {1700, 1800, 1900, 2001, 2100} => ~res.year

C8_Witness ==
    Done("is_leap_year") /\ arg.year = 1900 /\ ~res.year /\ ~res.ymd

\* C9: YMD::to_days_since_epoch maps 1 January 1970 to 0 and the next
\* calendar day of every valid date to a value exactly one greater, so it is
\* the true count of days since the Unix epoch, and LocalDateTime::to_instant
\* gives the true number of seconds since the Unix epoch.
C9_ToDaysCountsDays ==
    /\ (Done("to_days_since_epoch") /\ res.ok) =>
           /\ arg = YMD(1970, 1, 1) => res.days = 0
           /\ to_days_since_epoch(RefNextDay(arg)) = [ok |-> TRUE, days |-> res.days + 1]
           /\ res.days = RefDaysFromCivil(arg)
    /\ Done("to_instant") =>
           res = Instant_at_ms(RefReading(arg), arg.time.millisecond)

C9_Witness ==
    Done("to_days_since_epoch") /\ arg = YMD(-4, 2, 28) /\ res.ok
        /\ RefNextDay(arg) = YMD(-4, 2, 29)

\* C10: every LocalDate produced by ymd, yd, ywd or at has yearday() equal
\* to the ordinal of its own (year, month, day) and weekday() equal to the
\* true weekday of that (year, month, day).
C10_DerivedFieldsConsistent ==
    /\ (pc = "done" /\ op \in {"ymd", "yd", "ywd"} /\ res.ok) =>
           /\ res.date.yearday = RefOrdinal(res.date.ymd)
           /\ res.date.weekday = RefWeekday(res.date.ymd)
    /\ Done("at") =>
           /\ res.date.yearday = RefOrdinal(res.date.ymd)
           /\ res.date.weekday = RefWeekday(res.date.ymd)

\* C11: the weekday of internal day-count d is (d + 3) mod 7 taken in
\* [0, 7) with 0 = Sunday, also for negative d; 1 March 2000 (d = 0) is a
\* Wednesday, 1 January 1970 a Thursday, and the weekday of day d + 1 is the
\* cyclic successor of the weekday of day d.
C11_WeekdayWrapsForward ==
    Done("days_to_weekday") =>
        /\ res.weekday = (arg.days + 3) % 7
        /\ res.weekday \in 0..6
        /\ arg.days = 0 => res.weekday = 3
        /\ arg.days = -EPOCH_DIFFERENCE => res.weekday = 4
        /\ days_to_weekday(arg.days + 1) = (res.weekday + 1) % 7

C11_Witness ==
    Done("days_to_weekday") /\ arg.days = -EPOCH_DIFFERENCE - 4 /\ res.weekday = 0

\* C12: for every Unix second s, LocalDateTime::at(s).to_instant().seconds()
\* is s, and the instant of a date-time built from fields is the instant at
\* which at() yields those same fields.
C12_AtToInstantRoundTrip ==
    /\ Done("at") => LocalDateTime_to_instant(res).seconds = arg.seconds
    /\ Done("to_instant") => FieldsOf(LocalDateTime_at(res.seconds)) = FieldsOf(arg)

\* C16: LocalDate::yd(year, yearday) returns Err(OutOfRange) whenever
\* yearday < 1 or yearday > the number of days of that year.
C16_YdErrIfNotADayOfYear ==
    (Done("yd") /\ (arg.yearday < 1 \/ arg.yearday > RefDaysInYear(arg.year))) =>
        res = ErrOutOfRange

\* C17: for every date d a constructor returns, yd(d.year(), d.yearday())
\* is Ok of a date equal to d; and for every year and every n from 1 to the
\* number of days of that year, yd(year, n) has year() = year and
\* yearday() = n.
C17_YdRoundTrip ==
    /\ (pc = "done" /\ op \in {"ymd", "yd", "ywd"} /\ res.ok) =>
           LocalDate_yd(res.date.ymd.year, res.date.yearday) = res
    /\ Done("at") =>
           LocalDate_yd(res.date.ymd.year, res.date.yearday)
               = [ok |-> TRUE, date |-> res.date]
    /\ (Done("yd") /\ arg.yearday \in 1..RefDaysInYear(arg.year)) =>
           /\ res.ok
           /\ res.date.ymd.year = arg.year
           /\ res.date.yearday = arg.yearday

C17_Witness ==
    /\ Done("yd") /\ arg = [year |-> 2016, yearday |-> 366] /\ res.ok
    /\ res.date.ymd.year = 2016 /\ res.date.yearday = 366
    /\ LocalDate_yd(res.date.ymd.year, res.date.yearday) = res

\* C18: for every ISO year y, every week w that exists in ISO year y and
\* every weekday wd, LocalDate::ywd(y, w, wd) is Ok of the date of that
\* weekday of that ISO week (the Monday of the week holding 4 January, plus
\* 7 * (w - 1) days, plus wd's distance from Monday), and its weekday() is
\* wd; the fixtures of the documentation hold.
C18_YwdIsIsoWeekDate ==
    (Done("ywd") /\ arg.week \in 1..RefWeeksInYear(arg.year)) =>
        /\ res.ok
        /\ RefValid(res.date.ymd)
        /\ RefDaysFromCivil(res.date.ymd) = RefIsoDay(arg.year, arg.week, arg.weekday)
        /\ res.date.weekday = arg.weekday
        /\ arg = [year |-> 2009, week |-> 1, weekday |-> 1]
               => res.date.ymd = YMD(2008, 12, 29)
        /\ arg = [year |-> 2009, week |-> 53, weekday |-> 0]
               => res.date.ymd = YMD(2010, 1, 3)
        /\ arg = [year |-> 2015, week |-> 37, weekday |-> 5]
               => res.date.ymd = YMD(2015, 9, 11)

\* C19: LocalDate::ywd(year, week, weekday) returns an error whenever week
\* is not an ISO week number of that year (week < 1, or week > the 52 or 53
\* weeks the ISO year has).
C19_YwdErrIfNotAWeekOfYear ==
    (Done("ywd") /\ arg.week \notin 1..RefWeeksInYear(arg.year)) =>
        res = ErrOutOfRange

\* C20: LocalTime::hm, hms and hms_ms return Ok exactly for hour 0..23,
\* minute 0..59, second 0..59, millisecond 0..999 and for the end-of-day
\* value 24:00 / 24:00:00 / 24:00:00.000, and Err(OutOfRange) otherwise.
C20_TimeOkIffInRange ==
    /\ Done("hm") =>
           /\ res.ok <=> RefTimeOk(arg.hour, arg.minute, 0, 0)
           /\ res.ok => res.time = LocalTime(arg.hour, arg.minute, 0, 0)
           /\ ~res.ok => res = ErrOutOfRange
    /\ Done("hms") =>
           /\ res.ok <=> RefTimeOk(arg.hour, arg.minute, arg.second, 0)
           /\ res.ok => res.time = LocalTime(arg.hour, arg.minute, arg.second, 0)
           /\ ~res.ok => res = ErrOutOfRange
    /\ Done("hms_ms") =>
           /\ res.ok <=> RefTimeOk(arg.hour, arg.minute, arg.second, arg.millisecond)
           /\ res.ok => res.time = arg
           /\ ~res.ok => res = ErrOutOfRange

\* C21: Offset::of_seconds(s) returns Ok exactly when -86400 < s < 86400 and
\* Err(OutOfRange) for every other value, s = 86400 and s = -86400 included.
C21_OfSecondsOkIffInsideDay ==
    Done("of_seconds") =>
        /\ res.ok <=> (-86400 < arg.seconds /\ arg.seconds < 86400)
        /\ res.ok => res.offset = Offset(arg.seconds)
        /\ ~res.ok => res = OffsetErrOutOfRange

\* C22: Offset::of_hours_and_minutes(h, m) returns Err(SignMismatch) when h
\* and m have opposite signs, Err(OutOfRange) when the signs agree but h is
\* outside (-24, 24) or m outside (-60, 60), and otherwise Ok of the offset
\* of h * 3600 + m * 60 seconds, with hours() = h, minutes() = m and
\* seconds() = 0.
C22_OfHoursAndMinutes ==
    Done("of_hours_and_minutes") =>
        LET h        == arg.hours
            m        == arg.minutes
            opposite == (h > 0 /\ m < 0) \/ (h < 0 /\ m > 0)
            inside   == -24 < h /\ h < 24 /\ -60 < m /\ m < 60
        IN  /\ opposite => res = OffsetErrSignMismatch
            /\ (~opposite /\ ~inside) => res = OffsetErrOutOfRange
            /\ (~opposite /\ inside) =>
                   /\ res.ok
                   /\ res.offset.offset_seconds = h * 3600 + m * 60
                   /\ Offset_hours(res.offset) = h
                   /\ Offset_minutes(res.offset) = m
                   /\ Offset_seconds(res.offset) = 0

C22_Witness ==
    /\ Done("of_hours_and_minutes")
    /\ arg = [hours |-> -23, minutes |-> -59]
    /\ res.ok
    /\ res.offset.offset_seconds = -86340
    /\ Offset_hours(res.offset) = -23 /\ Offset_minutes(res.offset) = -59

\* C25: for every year and every month M from January to November,
\* yearday(last day of M) + 1 = yearday(first day of M + 1); yearday(1
\* January) = 1 and yearday(31 December) is 365, or 366 in a leap year; so
\* every date from 1 March onward has a yearday one greater in a leap year.
C25_YeardayRunsThroughYear ==
    (Done("ymd") /\ res.ok) =>
        LET leap == IF RefIsLeap(arg.year) THEN 1 ELSE 0
        IN  /\ (arg.month < 12 /\ arg.day = RefDaysInMonth(arg.year, arg.month)) =>
                   res.date.yearday + 1
                       = LocalDate_ymd(arg.year, arg.month + 1, 1).date.yearday
            /\ (arg.month = 1 /\ arg.day = 1) => res.date.yearday = 1
            /\ (arg.month = 12 /\ arg.day = 31) => res.date.yearday = 365 + leap
            /\ arg.month >= 3 =>
                   res.date.yearday = days_before_start(arg.month) + arg.day + leap

C25_Witness ==
    /\ Done("ymd") /\ arg = YMD(1600, 2, 29) /\ res.ok
    /\ res.date.yearday = 60
    /\ LocalDate_ymd(1600, 3, 1).date.yearday = 61
    /\ LocalDate_ymd(1601, 3, 1).date.yearday = 60

\* C29: in from_days_since_epoch, for every day-count, the decomposition
\* takes at most 3 whole 100-year cycles from the 400-year remainder and at
\* most 3 whole years from the 4-year remainder, so that the last day of a
\* 400-year cycle and of a 4-year cycle is counted inside the last partial
\* year of its cycle, and the days left within the year are in [0, 365].
C29_CyclesCapped ==
    Done("from_days_since_epoch") =>
        /\ res.cycles.num_100y_cycles \in 0..3
        /\ res.cycles.years \in 0..3
        /\ res.cycles.remainder \in 0..365
        /\ arg.days = res.cycles.num_400y_cycles * DAYS_IN_400Y
                       + res.cycles.num_100y_cycles * DAYS_IN_100Y
                       + res.cycles.num_4y_cycles * DAYS_IN_4Y
                       + res.cycles.years * 365
                       + res.cycles.remainder

----------------------------------------------------------------------------
(* Durations as a state machine: a duration built by Duration::of_ms, then *)
(* any sequence of additions, subtractions and multiplications applied to  *)
(* the running value res; arg holds the operands of the last operation.    *)

MsInputs == {0, 1, 500, 999}

DurationInputs ==
    { Duration_of_ms(sec, ms) : sec \in (-DurSecs)..DurSecs, ms \in MsInputs }

Amounts == (-MaxAmount)..MaxAmount

\* The operation name applied to the running value, with the given operands
\* and result; a panic ends the run.
Apply(name, value, result) ==
    /\ pc = "done"
    /\ res # Panic
    /\ result # Panic =>
           /\ result.seconds \in (-DurMax)..DurMax
           /\ result.milliseconds \in (-InstMsMax)..InstMsMax
    /\ op' = name
    /\ arg' = value
    /\ res' = result
    /\ UNCHANGED <<pc, tz>>

DurationInit ==
    /\ tz = NONE
    /\ pc = "done"
    /\ op = "of_ms"
    /\ \E sec \in (-DurSecs)..DurSecs, ms \in MsInputs :
          /\ arg = [seconds |-> sec, milliseconds |-> ms]
          /\ res = Duration_of_ms(sec, ms)

DurationAdd ==
    \E rhs \in DurationInputs :
        Apply("add", [self |-> res, rhs |-> rhs], Duration_add(res, rhs))

DurationSub ==
    \E rhs \in DurationInputs :
        Apply("sub", [self |-> res, rhs |-> rhs], Duration_sub(res, rhs))

DurationMul ==
    \E amount \in Amounts :
        Apply("mul", [self |-> res, amount |-> amount], Duration_mul(res, amount))

DurationNext == DurationAdd \/ DurationSub \/ DurationMul

DurationSpec == DurationInit /\ [][DurationNext]_vars

\* The length of a duration, or the position of an instant, in milliseconds.
TotalMs(d) == d.seconds * 1000 + d.milliseconds

\* C13: for durations a and b with millisecond parts in [0, 999], a + b and
\* a - b have a millisecond part in [0, 999] and are the exact sum and
\* difference in total milliseconds, (a + b) - b = a, and the millisecond
\* part stays in [0, 999] after any sequence of additions and subtractions.
C13_DurationAddSubExact ==
    /\ Done("add") =>
           /\ res # Panic
           /\ res.milliseconds \in 0..999
           /\ TotalMs(res) = TotalMs(arg.self) + TotalMs(arg.rhs)
           /\ Duration_sub(res, arg.rhs) = arg.self
    /\ Done("sub") =>
           /\ res # Panic
           /\ res.milliseconds \in 0..999
           /\ TotalMs(res) = TotalMs(arg.self) - TotalMs(arg.rhs)
           /\ Duration_add(res, arg.rhs) = arg.self
    /\ (pc = "done" /\ op \in {"of_ms", "add", "sub"}) =>
           (res # Panic /\ res.milliseconds \in 0..999)

C13_Witness ==
    /\ Done("add")
    /\ arg.self.seconds < 0
    /\ arg.self.milliseconds + arg.rhs.milliseconds >= 1000
    /\ TotalMs(res) = TotalMs(arg.self) + TotalMs(arg.rhs)

\* C14: for every duration d with millisecond part in [0, 999] and every
\* amount n, negative ones included, d * n is a duration with millisecond
\* part in [0, 999] whose total length in milliseconds is n times d's, and
\* the multiplication does not panic.
C14_DurationMulExact ==
    Done("mul") =>
        /\ res # Panic
        /\ res.milliseconds \in 0..999
        /\ TotalMs(res) = arg.amount * TotalMs(arg.self)

----------------------------------------------------------------------------
(* Instants as a state machine: an instant built by Instant::at_ms, then   *)
(* any sequence of durations added to and subtracted from the running      *)
(* value res.                                                              *)

InstantInit ==
    /\ tz = NONE
    /\ pc = "done"
    /\ op = "at_ms"
    /\ \E sec \in (-DurSecs)..DurSecs, ms \in MsInputs :
          /\ arg = [seconds |-> sec, milliseconds |-> ms]
          /\ res = Instant_at_ms(sec, ms)

InstantAdd ==
    \E duration \in DurationInputs :
        Apply("add", [self |-> res, duration |-> duration], Instant_add(res, duration))

InstantSub ==
    \E duration \in DurationInputs :
        Apply("sub", [self |-> res, duration |-> duration], Instant_sub(res, duration))

InstantNext == InstantAdd \/ InstantSub

InstantSpec == InstantInit /\ [][InstantNext]_vars

\* C15: for every instant i with milliseconds in 0..999 and every duration
\* d, i + d and i - d are instants with milliseconds in 0..999 that lie
\* exactly d later or earlier, also after any sequence of such additions
\* and subtractions.
C15_InstantAddSubNormalised ==
    /\ (Done("add") /\ arg.self.milliseconds \in 0..999) =>
           /\ res.milliseconds \in 0..999
           /\ TotalMs(res) = TotalMs(arg.self) + TotalMs(arg.duration)
    /\ (Done("sub") /\ arg.self.milliseconds \in 0..999) =>
           /\ res.milliseconds \in 0..999
           /\ TotalMs(res) = TotalMs(arg.self) - TotalMs(arg.duration)
    /\ pc = "done" => res.milliseconds \in 0..999

----------------------------------------------------------------------------
(* cal/zone.rs: FixedTimespanSet.  A table is a record with the first      *)
(* timespan and the sequence rest of <<transition instant, timespan>>; a   *)
(* timespan carries its offset and its name (is_dst takes no part in any   *)
(* computation).  An Option is a record with a "some" field.               *)

FixedTimespan(offset, name) == [offset |-> offset, name |-> name]

None == [some |-> FALSE]

\* rest.iter().take_while(|t| t.0 < time): the length of the longest prefix
\* of rest whose transition instants are all before time.
TakeWhileBefore(set, time) ==
    CHOOSE n \in 0..Len(set.rest) :
        /\ \A i \in 1..n : set.rest[i][1] < time
        /\ n < Len(set.rest) => ~(set.rest[n + 1][1] < time)

\* find that returns the first entry of rest before time, not the last.
find_first_match(set, time) ==
    LET n == TakeWhileBefore(set, time)
    IN  IF n = 0 THEN set.first ELSE set.rest[1][2]

find(set, time) ==
    LET n == TakeWhileBefore(set, time)
    IN  IF n = 0 THEN set.first ELSE set.rest[n][2]

\* slice.get(i) for the 1-based index i
Get(seq, i) ==
    IF i \in 1..Len(seq)
    THEN [some |-> TRUE, time |-> seq[i][1], span |-> seq[i][2]]
    ELSE None

\* find_with_surroundings that pairs previous with the instant at which the
\* previous timespan began (first: the instant at which it ended).
find_with_surroundings_began(set, time) ==
    LET n == TakeWhileBefore(set, time)
    IN  IF n > 0
        THEN LET previous_details == IF n = 1 THEN set.first ELSE set.rest[n - 1][2]
             IN  [previous |-> [some |-> TRUE, span |-> previous_details,
                                time |-> IF n = 1 THEN set.rest[n][1]
                                                  ELSE set.rest[n - 1][1]],
                  current  |-> set.rest[n][2],
                  next     |-> Get(set.rest, n + 1)]
        ELSE [previous |-> None,
              current  |-> set.first,
              next     |-> Get(set.rest, 1)]

find_with_surroundings(set, time) ==
    LET n == TakeWhileBefore(set, time)
    IN  IF n > 0
        THEN LET previous_details == IF n = 1 THEN set.first ELSE set.rest[n - 1][2]
             IN  [previous |-> [some |-> TRUE, span |-> previous_details,
                                time |-> set.rest[n][1]],
                  current  |-> set.rest[n][2],
                  next     |-> Get(set.rest, n + 1)]
        ELSE [previous |-> None,
              current  |-> set.first,
              next     |-> Get(set.rest, 1)]

FixedTimespanSet_offset(set, datetime) ==
    find(set, LocalDateTime_to_instant(datetime).seconds).offset

\* TimeZone::to_zoned
to_zoned(set, datetime) ==
    LocalDateTime_add(datetime, Duration_of(FixedTimespanSet_offset(set, datetime)))

ZonedDateTime(local, offset) == [adjusted |-> local, current_offset |-> offset]

ZonedDateTime_to_instant(zoned) ==
    LocalDateTime_to_instant(
        LocalDateTime_sub(zoned.adjusted, Duration_of(zoned.current_offset)))

Impossible == [kind |-> "Impossible"]

Precise(zoned) == [kind |-> "Precise", zoned |-> zoned]

Ambiguous(earlier, later) == [kind |-> "Ambiguous", earlier |-> earlier, later |-> later]

\* convert_local_next without the test for the overlap at the next
\* transition.
convert_local_next_no_overlap(local, unix_timestamp, timespans) ==
    LET current == timespans.current
        next    == timespans.next
    IN  IF next.some /\ current.offset = next.span.offset
        THEN Panic
        ELSE IF /\ next.some
                /\ current.offset < next.span.offset
                /\ is_within(unix_timestamp - next.time, current.offset, next.span.offset)
        THEN Impossible
        ELSE Precise(ZonedDateTime(local, current.offset))

\* The part of convert_local that looks at the next transition.
convert_local_next(local, unix_timestamp, timespans) ==
    LET current == timespans.current
        next    == timespans.next
    IN  IF next.some /\ current.offset = next.span.offset
        THEN Panic
        ELSE IF /\ next.some
                /\ current.offset > next.span.offset
                /\ is_within(unix_timestamp - next.time, next.span.offset, current.offset)
        THEN Ambiguous(ZonedDateTime(local, current.offset),
                       ZonedDateTime(local, next.span.offset))
        ELSE IF /\ next.some
                /\ current.offset < next.span.offset
                /\ is_within(unix_timestamp - next.time, current.offset, next.span.offset)
        THEN Impossible
        ELSE Precise(ZonedDateTime(local, current.offset))

convert_local(set, local) ==
    LET unix_timestamp == LocalDateTime_to_instant(local).seconds
        timespans      == find_with_surroundings(set, unix_timestamp)
        previous       == timespans.previous
        current        == timespans.current
    IN  IF previous.some /\ current.offset = previous.span.offset
        THEN Panic
        ELSE IF /\ previous.some
                /\ previous.span.offset > current.offset
                /\ is_within(unix_timestamp - previous.time,
                             current.offset, previous.span.offset)
        THEN Ambiguous(ZonedDateTime(local, previous.span.offset),
                       ZonedDateTime(local, current.offset))
        ELSE IF /\ previous.some
                /\ previous.span.offset < current.offset
                /\ is_within(unix_timestamp - previous.time,
                             previous.span.offset, current.offset)
        THEN Impossible
        ELSE convert_local_next(local, unix_timestamp, timespans)

----------------------------------------------------------------------------
(* The resolver as a state machine: a table built once, then a call of one *)
(* of its operations and its return.                                       *)

Offsets == (-MaxOff)..MaxOff

\* Local readings are taken on 1 March 2016, built by the validating
\* constructors; its midnight is Unix second ZoneBase.
ZoneDate == LocalDate_ymd(2016, 3, 1).date

ZoneBase == to_days_since_epoch(YMD(2016, 3, 1)).days * SECONDS_IN_DAY

TransitionInstants == { ZoneBase + k : k \in 0..TMax }

LocalInputs ==
    { LocalDateTime_new(ZoneDate, LocalTime_hms(0, 0, s).time) : s \in 0..LMax }

\* The strictly ascending sequences of n transition instants.
AscendingInstants(n) ==
    { ts \in [1..n -> TransitionInstants] : \A i \in 1..(n - 1) : ts[i] < ts[i + 1] }

\* The table with the given first offset, transition instants and offsets.
Table(o, ts, os) ==
    [first |-> FixedTimespan(o, 0),
     rest  |-> [i \in 1..Len(ts) |-> <<ts[i], FixedTimespan(os[i], i)>>]]

\* Timestamps given to find and find_with_surroundings: from before the
\* first possible transition instant to after the last.
FindInputs == { ZoneBase + k : k \in (-1)..(TMax + 1) }

\* Offsets that alternate between the two extremes, for the tables on which
\* only the lookup is exercised (the timespans differ by name).
AlternatingOffsets(n) == [i \in 1..n |-> IF i % 2 = 1 THEN MaxOff ELSE -MaxOff]

\* Offsets, in seconds, of the single-timespan tables of the round trip.
RoundTripOffsets == {-18000, -3600, -1, 0, 1, 3600, 19800}

\* Local date-times built by the validating constructors.
RoundTripLocals ==
    { LocalDateTime_new(LocalDate_ymd(d[1], d[2], d[3]).date, t.time) :
        d \in {<<2016, 3, 1>>, <<2016, 2, 28>>, <<2015, 3, 1>>,
                <<2016, 12, 31>>, <<1970, 1, 1>>},
        t \in {LocalTime_hm(0, 0), LocalTime_hms(0, 30, 0),
                LocalTime_hms_ms(12, 0, 0, 500), LocalTime_hms_ms(23, 59, 59, 999),
                LocalTime_hms(24, 0, 0)} }

ZoneInit ==
    \/ /\ \E n \in 0..MaxRest :
             \E ts \in AscendingInstants(n), os \in [1..n -> Offsets], o \in Offsets :
                 tz = Table(o, ts, os)
       /\ \E local \in LocalInputs : Call("convert_local", local)
    \/ /\ \E n \in 0..MaxRest :
             \E ts \in AscendingInstants(n) :
                 tz = Table(0, ts, AlternatingOffsets(n))
       /\ \E t \in FindInputs :
             \/ Call("find", [time |-> t])
             \/ Call("find_with_surroundings", [time |-> t])
    \/ /\ \E o \in RoundTripOffsets : tz = Table(o, <<>>, <<>>)
       /\ \E local \in RoundTripLocals : Call("round_trip", local)

ConvertLocal == Return("convert_local", convert_local(tz, arg))

Find == Return("find", find(tz, arg.time))

FindWithSurroundings ==
    Return("find_with_surroundings", find_with_surroundings(tz, arg.time))

\* The local date-time as a ZonedDateTime of the table's offset, its
\* to_instant(), and the local fields of that instant under the same table.
RoundTrip ==
    Return("round_trip",
           to_zoned(tz, LocalDateTime_from_instant(
                            ZonedDateTime_to_instant(
                                ZonedDateTime(arg, tz.first.offset)))))

ZoneNext == ConvertLocal \/ Find \/ FindWithSurroundings \/ RoundTrip

ZoneSpec == ZoneInit /\ [][ZoneNext]_vars

----------------------------------------------------------------------------
(* Properties of convert_local.                                            *)

\* The offset in effect before and after the i-th transition, and its instant.
OffsetBefore(set, i) ==
    IF i = 1 THEN set.first.offset ELSE set.rest[i - 1][2].offset

OffsetAfter(set, i) == set.rest[i][2].offset

TransitionAt(set, i) == set.rest[i][1]

\* Strictly ascending transition instants, adjacent timespans with
\* different offsets.
Regular(set) ==
    /\ \A i \in 1..(Len(set.rest) - 1) : TransitionAt(set, i) < TransitionAt(set, i + 1)
    /\ \A i \in 1..Len(set.rest) : OffsetBefore(set, i) # OffsetAfter(set, i)

\* The reading L lies in the spring-forward gap of the i-th transition.
InGapOf(set, i, L) ==
    /\ OffsetBefore(set, i) < OffsetAfter(set, i)
    /\ TransitionAt(set, i) + OffsetBefore(set, i) <= L
    /\ L < TransitionAt(set, i) + OffsetAfter(set, i)

\* The reading L lies in the fall-back overlap of the i-th transition.
InOverlapOf(set, i, L) ==
    /\ OffsetBefore(set, i) > OffsetAfter(set, i)
    /\ TransitionAt(set, i) + OffsetAfter(set, i) <= L
    /\ L < TransitionAt(set, i) + OffsetBefore(set, i)

InGap(set, L) == \E i \in 1..Len(set.rest) : InGapOf(set, i, L)

InOverlap(set, L) == \E i \in 1..Len(set.rest) : InOverlapOf(set, i, L)

Abs(x) == IF x < 0 THEN -x ELSE x

\* The largest absolute offset of the table.
LargestOffset(set) ==
    LET all == {Abs(set.first.offset)}
               \cup { Abs(set.rest[i][2].offset) : i \in 1..Len(set.rest) }
    IN  CHOOSE m \in all : \A x \in all : x <= m

\* Consecutive transitions lie at least twice the largest absolute offset
\* of the table apart.
WellSpaced(set) ==
    \A i \in 1..(Len(set.rest) - 1) :
        TransitionAt(set, i + 1) - TransitionAt(set, i) >= 2 * LargestOffset(set)

\* C3 (as claimed): on a regular table convert_local returns Impossible if
\* and only if the reading lies in the spring-forward gap of some
\* transition.
C3_ImpossibleIffInGap ==
    (Done("convert_local") /\ Regular(tz)) =>
        (res = Impossible <=> InGap(tz, RefReading(arg)))

\* C3 (amended): on a regular table whose consecutive transitions lie at
\* least twice its largest absolute offset apart, convert_local
\* returns Impossible if and only if the reading lies in the spring-forward
\* gap of some transition.
C3_ImpossibleIffInGapWellSpaced ==
    (Done("convert_local") /\ Regular(tz) /\ WellSpaced(tz)) =>
        (res = Impossible <=> InGap(tz, RefReading(arg)))

C3_Witness ==
    /\ Done("convert_local") /\ Regular(tz) /\ WellSpaced(tz)
    /\ Len(tz.rest) = 2
    /\ InGapOf(tz, 2, RefReading(arg))
    /\ res = Impossible

\* C4 (as claimed): on a regular table convert_local returns Ambiguous if
\* and only if the reading lies in the fall-back overlap of some transition.
C4_AmbiguousIffInOverlap ==
    (Done("convert_local") /\ Regular(tz)) =>
        (res.kind = "Ambiguous" <=> InOverlap(tz, RefReading(arg)))

\* C4 (amended): on a regular table whose consecutive transitions lie at
\* least twice its largest absolute offset apart, convert_local
\* returns Ambiguous if and only if the reading lies in the fall-back
\* overlap of some transition.
C4_AmbiguousIffInOverlapWellSpaced ==
    (Done("convert_local") /\ Regular(tz) /\ WellSpaced(tz)) =>
        (res.kind = "Ambiguous" <=> InOverlap(tz, RefReading(arg)))

C4_Witness ==
    /\ Done("convert_local") /\ Regular(tz) /\ WellSpaced(tz)
    /\ Len(tz.rest) = 2
    /\ InOverlapOf(tz, 2, RefReading(arg))
    /\ res.kind = "Ambiguous"

\* C5: whenever convert_local returns Precise(z) on a regular table,
\* z.to_instant() is the reading minus the offset the table has in effect at
\* that instant, and to_zoned of the UTC date-time of that instant gives the
\* reading back.
C5_PreciseShowsReading ==
    (Done("convert_local") /\ Regular(tz) /\ res.kind = "Precise") =>
        LET instant == ZonedDateTime_to_instant(res.zoned)
        IN  /\ instant.seconds = RefReading(arg) - find(tz, instant.seconds).offset
            /\ FieldsOf(to_zoned(tz, LocalDateTime_from_instant(instant))) = FieldsOf(arg)

\* C6: whenever convert_local returns Ambiguous { earlier, later }, earlier
\* carries the larger (pre-transition) offset and later the smaller one,
\* each instant is the reading minus its offset, and earlier.to_instant()
\* precedes later.to_instant() by the difference of the two offsets.
C6_AmbiguousEarlierLater ==
    (Done("convert_local") /\ res.kind = "Ambiguous") =>
        LET e == ZonedDateTime_to_instant(res.earlier).seconds
            l == ZonedDateTime_to_instant(res.later).seconds
        IN  /\ res.earlier.current_offset > res.later.current_offset
            /\ \E i \in 1..Len(tz.rest) :
                   /\ OffsetBefore(tz, i) = res.earlier.current_offset
                   /\ OffsetAfter(tz, i) = res.later.current_offset
            /\ e = RefReading(arg) - res.earlier.current_offset
            /\ l = RefReading(arg) - res.later.current_offset
            /\ l - e = res.earlier.current_offset - res.later.current_offset

\* C23: for every LocalDateTime L built by the validating constructors and
\* every offset, the instant L - offset, read back under the same offset
\* (instant + offset), is a LocalDateTime equal to L.
C23_ZonedRoundTrip ==
    Done("round_trip") => res = arg

\* C24: for every table that can be constructed and every local date-time,
\* convert_local returns one of Precise, Ambiguous and Impossible and never
\* stops on a failed assertion.
C24_ConvertLocalNeverPanics ==
    Done("convert_local") => res.kind \in {"Precise", "Ambiguous", "Impossible"}

\* The number of transitions of the table that lie strictly before t.
Before(set, t) == Cardinality({ i \in 1..Len(set.rest) : TransitionAt(set, i) < t })

\* C27: find(t) returns the timespan of the last entry of rest whose
\* transition instant is strictly less than t (the latest one when several
\* qualify), and first when none qualifies, so also when t is the first
\* transition instant; the offset of a date-time that reads t is the offset
\* of that timespan.
C27_FindLatestBefore ==
    Done("find") =>
        LET qualifying == { i \in 1..Len(tz.rest) : TransitionAt(tz, i) < arg.time }
        IN  /\ qualifying = {} => res = tz.first
            /\ qualifying # {} =>
                   \E i \in qualifying :
                       /\ \A j \in qualifying : j <= i
                       /\ res = tz.rest[i][2]
            /\ (Len(tz.rest) > 0 /\ arg.time = TransitionAt(tz, 1)) => res = tz.first
            /\ \A datetime \in LocalInputs :
                   RefReading(datetime) = arg.time
                       => FixedTimespanSet_offset(tz, datetime) = res.offset

C27_Witness ==
    /\ Done("find")
    /\ Len(tz.rest) = 2
    /\ TransitionAt(tz, 2) < arg.time
    /\ res = tz.rest[2][2]
    /\ res # tz.rest[1][2]
    /\ \E datetime \in LocalInputs :
           /\ RefReading(datetime) = arg.time
           /\ FixedTimespanSet_offset(tz, datetime) = res.offset

\* C28: on a table with ascending transitions, find_with_surroundings(t)
\* returns current = find(t); previous is present exactly when current is
\* not first, and is the timespan before current with the instant at which
\* current began; next is present exactly when a later transition exists,
\* and is the entry after current with the instant at which it begins.
C28_SurroundingsAreNeighbours ==
    Done("find_with_surroundings") =>
        LET k == Before(tz, arg.time)
        IN  /\ res.current = find(tz, arg.time)
            /\ res.current = IF k = 0 THEN tz.first ELSE tz.rest[k][2]
            /\ res.previous.some <=> k > 0
            /\ k > 0 =>
                   /\ res.previous.span = IF k = 1 THEN tz.first ELSE tz.rest[k - 1][2]
                   /\ res.previous.time = TransitionAt(tz, k)
            /\ res.next.some <=> k < Len(tz.rest)
            /\ k < Len(tz.rest) =>
                   /\ res.next.span = tz.rest[k + 1][2]
                   /\ res.next.time = TransitionAt(tz, k + 1)

C28_Witness ==
    /\ Done("find_with_surroundings")
    /\ Len(tz.rest) = 2
    /\ Before(tz, arg.time) = 2
    /\ res.previous.some
    /\ res.previous.span = tz.rest[1][2]
    /\ res.previous.time = TransitionAt(tz, 2)
    /\ ~res.next.some

----------------------------------------------------------------------------
(* cal/iter.rs: YearMonth::days and the MonthDays iterator.  A Range<i8>   *)
(* is a record of its start and end; a day span is a record of its kind    *)
(* (.., a.., ..b or a..b) and its ends.                                    *)

YearMonth(year, month) == [year |-> year, month |-> month]

day_count(ym) == days_in_month(ym.month, Year_is_leap_year(ym.year))

Range(start, end) == [start |-> start, end |-> end]

RangeFull == [kind |-> "full"]

RangeFrom(start) == [kind |-> "from", start |-> start]

RangeTo(end) == [kind |-> "to", end |-> end]

RangeOf(start, end) == [kind |-> "range", start |-> start, end |-> end]

\* DaySpan::get_range of the four span types
get_range(span, ym) ==
    CASE span.kind = "full"  -> Range(1, day_count(ym) + 1)
      [] span.kind = "from"  -> Range(span.start, day_count(ym) + 1)
      [] span.kind = "to"    -> Range(1, span.end)
      [] span.kind = "range" -> Range(span.start, span.end)

MonthDays(ym, range) == [ym |-> ym, range |-> range]

YearMonth_days(ym, span) == MonthDays(ym, get_range(span, ym))

\* Range<i8>::next: the start of the range, which then moves up by one, or
\* None once the range is empty.
Range_next(range) ==
    IF range.start < range.end
    THEN [some |-> TRUE, value |-> range.start,
          range |-> Range(range.start + 1, range.end)]
    ELSE [some |-> FALSE, range |-> range]

\* MonthDays::next: the item returned and the iterator afterwards.
MonthDays_next(iter) ==
    LET d == Range_next(iter.range)
    IN  IF d.some
        THEN LET r == LocalDate_ymd(iter.ym.year, iter.ym.month, d.value)
             IN  [item |-> IF r.ok THEN [some |-> TRUE, date |-> r.date] ELSE None,
                  iter |-> MonthDays(iter.ym, d.range)]
        ELSE [item |-> None, iter |-> iter]

----------------------------------------------------------------------------
(* The iterator as a state machine: ym.days(span) is built, then next() is *)
(* called until it first returns None; res is the sequence of the dates    *)
(* yielded so far, arg holds the span and the iterator.                    *)

IterYears == {1900, 2000, 2015, 2016}

SpanDayInputs == {0, 1, 2, 10, 20, 28, 29, 30, 31, 32}

DaySpans ==
    {RangeFull}
        \cup { RangeFrom(a) : a \in SpanDayInputs }
        \cup { RangeTo(b) : b \in SpanDayInputs }
        \cup { RangeOf(a, b) : a \in SpanDayInputs, b \in SpanDayInputs }

IterInit ==
    /\ tz = NONE
    /\ pc = "iter"
    /\ op = "days"
    /\ res = <<>>
    /\ \E y \in IterYears, m \in Months, span \in DaySpans :
          arg = [span |-> span, iter |-> YearMonth_days(YearMonth(y, m), span)]

MonthDaysNext ==
    /\ pc = "iter"
    /\ LET n == MonthDays_next(arg.iter)
       IN  /\ arg' = [arg EXCEPT !.iter = n.iter]
           /\ IF n.item.some
              THEN res' = Append(res, n.item.date) /\ pc' = "iter"
              ELSE res' = res /\ pc' = "done"
    /\ UNCHANGED <<op, tz>>

IterNext == MonthDaysNext

IterSpec == IterInit /\ [][IterNext]_vars

\* The day numbers of the span's month that lie in the span.
DaysInSpan(ym, span) ==
    { d \in 1..RefDaysInMonth(ym.year, ym.month) :
        CASE span.kind = "full"  -> TRUE
          [] span.kind = "from"  -> d >= span.start
          [] span.kind = "to"    -> d < span.end
          [] span.kind = "range" -> d >= span.start /\ d < span.end }

\* C26: for every YearMonth ym and every day span, calling next() on
\* ym.days(span) until it first returns None yields exactly the dates of
\* that month whose day number lies in the span, in ascending order, each
\* with ym's year and month and the corresponding day().
C26_DaysYieldsSpanOfMonth ==
    Done("days") =>
        LET ym   == arg.iter.ym
            days == DaysInSpan(ym, arg.span)
        IN  /\ Len(res) = Cardinality(days)
            /\ \A i \in 1..Len(res) :
                   /\ res[i].ymd.year = ym.year
                   /\ res[i].ymd.month = ym.month
                   /\ res[i].ymd.day \in days
                   /\ i > 1 => res[i - 1].ymd.day < res[i].ymd.day

----------------------------------------------------------------------------
(* Values of type i64 at their full width.  The integers of the model      *)
(* checker are 32 bits wide, so a 64-bit value is a sign and a magnitude   *)
(* of Limbs digits in base 1000, most significant first: i64::MAX is       *)
(* <<9, 223, 372, 36, 854, 775, 807>>.  Divisors, factors and remainders   *)
(* are the small constants of datetime.rs and stay ordinary integers.      *)

Limbs == 7

MagZero == [i \in 1..Limbs |-> 0]

\* The magnitude of a natural number below 2^31.
MagOfNat(n) ==
    [i \in 1..Limbs |->
        CASE i = Limbs     -> n % 1000
          [] i = Limbs - 1 -> (n \div 1000) % 1000
          [] i = Limbs - 2 -> (n \div 1000000) % 1000
          [] i = Limbs - 3 -> n \div 1000000000
          [] OTHER         -> 0]

Big(neg, mag) == [neg |-> neg, mag |-> mag]

BigOfInt(n) == Big(n < 0, MagOfNat(IF n < 0 THEN -n ELSE n))

MagCompare(a, b) ==
    LET differ == { i \in 1..Limbs : a[i] # b[i] }
    IN  IF differ = {}
        THEN 0
        ELSE LET i == CHOOSE j \in differ : \A k \in differ : j <= k
             IN  IF a[i] < b[i] THEN -1 ELSE 1

BigCompare(x, y) ==
    IF x.neg # y.neg
    THEN IF x.neg THEN -1 ELSE 1
    ELSE IF x.neg THEN MagCompare(y.mag, x.mag) ELSE MagCompare(x.mag, y.mag)

\* carry[i] is the carry out of digit i of a + b.
MagAdd(a, b) ==
    LET carry[i \in 1..(Limbs + 1)] ==
            IF i > Limbs THEN 0 ELSE (a[i] + b[i] + carry[i + 1]) \div 1000
    IN  [i \in 1..Limbs |-> (a[i] + b[i] + carry[i + 1]) % 1000]

\* a - b for a >= b; borrow[i] is the borrow out of digit i.
MagSub(a, b) ==
    LET borrow[i \in 1..(Limbs + 1)] ==
            IF i > Limbs
            THEN 0
            ELSE IF a[i] - b[i] - borrow[i + 1] < 0 THEN 1 ELSE 0
    IN  [i \in 1..Limbs |-> (a[i] - b[i] - borrow[i + 1] + 1000) % 1000]

BigNeg(x) == IF x.mag = MagZero THEN x ELSE Big(~x.neg, x.mag)

BigAdd(x, y) ==
    IF x.neg = y.neg
    THEN Big(x.neg, MagAdd(x.mag, y.mag))
    ELSE LET c == MagCompare(x.mag, y.mag)
         IN  CASE c = 0 -> Big(FALSE, MagZero)
               [] c > 0 -> Big(x.neg, MagSub(x.mag, y.mag))
               [] c < 0 -> Big(y.neg, MagSub(y.mag, x.mag))

\* Long division by a divisor c > 0: the remainders left after the digits
\* 1..i of a, for i in 0..Limbs.
DivRem(a, c) ==
    LET rem[i \in 0..Limbs] ==
            IF i = 0 THEN 0 ELSE (rem[i - 1] * 1000 + a[i]) % c
    IN  rem

MagDiv(a, c) ==
    LET rem == DivRem(a, c)
    IN  [i \in 1..Limbs |-> (rem[i - 1] * 1000 + a[i]) \div c]

\* carry[i] is the carry out of digit i of a * c.
MagMul(a, c) ==
    LET carry[i \in 1..(Limbs + 1)] ==
            IF i > Limbs THEN 0 ELSE (a[i] * c + carry[i + 1]) \div 1000
    IN  [i \in 1..Limbs |-> (a[i] * c + carry[i + 1]) % 1000]

\* x * c for a factor c > 0
BigMul(x, c) == Big(x.neg, MagMul(x.mag, c))

I64_MAX == Big(FALSE, <<9, 223, 372, 36, 854, 775, 807>>)

I64_MIN == Big(TRUE, <<9, 223, 372, 36, 854, 775, 808>>)

TwoTo64 == Big(FALSE, <<18, 446, 744, 73, 709, 551, 616>>)

is_i64(x) == BigCompare(I64_MIN, x) <= 0 /\ BigCompare(x, I64_MAX) <= 0

\* The i64 left by an operation whose exact result is x: x itself, or x
\* wrapped around where it does not fit (a build without overflow checks).
wrapping(x) ==
    IF BigCompare(x, I64_MAX) > 0
    THEN BigAdd(x, BigNeg(TwoTo64))
    ELSE IF BigCompare(x, I64_MIN) < 0 THEN BigAdd(x, TwoTo64) ELSE x

\* The steps, among those named, whose exact result is not an i64.
Overflowing(steps) == { st \in DOMAIN steps : ~is_i64(steps[st]) }

\* Rust's / and % of an i64 by a divisor c > 0 (both truncate toward zero).
I64_div(x, c) ==
    LET q == MagDiv(x.mag, c)
    IN  Big(x.neg /\ q # MagZero, q)

I64_rem(x, c) ==
    LET r == DivRem(x.mag, c)[Limbs]
    IN  IF x.neg THEN -r ELSE r

\* split_cycles at 64 bits: the cycles, the remainder (below cycle_length)
\* and the steps that overflowed.
split_cycles_i64(number_of_periods, cycle_length) ==
    LET cycles    == I64_div(number_of_periods, cycle_length)
        remainder == I64_rem(number_of_periods, cycle_length)
        less_one  == BigAdd(cycles, BigOfInt(-1))
    IN  IF remainder < 0
        THEN [cycles    |-> wrapping(less_one),
              remainder |-> remainder + cycle_length,
              overflow  |-> Overflowing([cycles_minus_1 |-> less_one])]
        ELSE [cycles |-> cycles, remainder |-> remainder, overflow |-> {}]

days_to_weekday_i64(days) ==
    LET days_plus_3 == BigAdd(days, BigOfInt(3))
        weekday     == I64_rem(wrapping(days_plus_3), 7)
    IN  [weekday  |-> IF weekday < 0 THEN weekday + 7 ELSE weekday,
         overflow |-> Overflowing([days_plus_3 |-> days_plus_3])]

\* from_days_since_epoch at 64 bits.  After the first split_cycles every
\* quantity but num_400y_cycles lies below DAYS_IN_400Y, so the cycles
\* within the 400 years, the month, the day and the yearday are those
\* from_days_since_epoch computes from the remainder; the year has
\* 400 * num_400y_cycles added, and the weekday is taken from days.
from_days_since_epoch_i64(days) ==
    LET sc              == split_cycles_i64(days, DAYS_IN_400Y)
        num_400y_cycles == sc.cycles
        within          == from_days_since_epoch(sc.remainder)
        times_400       == BigMul(num_400y_cycles, 400)
        year            == BigAdd(BigOfInt(within.ymd.year), wrapping(times_400))
        weekday         == days_to_weekday_i64(days)
    IN  [date     |-> [within EXCEPT !.ymd.year = wrapping(year),
                                     !.weekday  = weekday.weekday],
         overflow |-> sc.overflow \cup weekday.overflow
                        \cup Overflowing([times_400 |-> times_400, year |-> year])]

----------------------------------------------------------------------------
(* The conversions at 64 bits as a state machine, in a build with overflow *)
(* checks ("debug": an overflowing operation panics) or without            *)
(* ("release": it wraps).  LocalDateTime::at goes through the statements   *)
(* of at_ms one by one, its local variables held in res: the shift to the  *)
(* internal epoch, the split into days and seconds, then the date and the  *)
(* time.  from_days_since_epoch is one call and its return.                *)

I64Span == 12

Builds == {"debug", "release"}

\* i64::MIN, the least second count whose internal-epoch form fits, zero,
\* the 32-bit maximum of the tests, and i64::MAX.
I64Anchors ==
    {I64_MIN,
     BigAdd(I64_MIN, BigOfInt(EPOCH_DIFFERENCE * SECONDS_IN_DAY)),
     BigOfInt(0),
     BigOfInt(2147483647),
     I64_MAX}

I64Inputs ==
    { x \in { BigAdd(a, BigOfInt(k)) : a \in I64Anchors, k \in (-I64Span)..I64Span } :
        is_i64(x) }

I64Init ==
    /\ tz = NONE
    /\ \E x \in I64Inputs, build \in Builds :
          \/ Call("at_i64", [seconds_since_1970_epoch |-> x, build |-> build])
          \/ Call("from_days_since_epoch_i64", [days |-> x, build |-> build])

\* What the build returns: a panic at the first overflow where overflow is
\* checked, the value computed from the wrapped integers where it is not.
Outcome(build, overflow, value) ==
    [overflow |-> overflow,
     value    |-> IF build = "debug" /\ overflow # {} THEN Panic ELSE value]

\* One statement of at_ms: on to the next one with the locals it leaves, or,
\* where overflow is checked and the statement overflowed, out with a panic.
Step(next_pc, overflow, locals) ==
    /\ IF arg.build = "debug" /\ overflow # {}
       THEN pc' = "done" /\ res' = Outcome(arg.build, overflow, Panic)
       ELSE pc' = next_pc /\ res' = locals
    /\ UNCHANGED <<op, arg, tz>>

\* let seconds = seconds_since_1970_epoch - EPOCH_DIFFERENCE * SECONDS_IN_DAY;
AtMsSeconds ==
    /\ pc = "call"
    /\ op = "at_i64"
    /\ LET seconds  == BigAdd(arg.seconds_since_1970_epoch,
                              BigOfInt(-(EPOCH_DIFFERENCE * SECONDS_IN_DAY)))
           overflow == Overflowing([seconds |-> seconds])
       IN  Step("split_cycles", overflow,
                [seconds |-> wrapping(seconds), overflow |-> overflow])

\* let (days, secs) = split_cycles(seconds, SECONDS_IN_DAY);
AtMsSplitCycles ==
    /\ pc = "split_cycles"
    /\ LET sc       == split_cycles_i64(res.seconds, SECONDS_IN_DAY)
           overflow == res.overflow \cup sc.overflow
       IN  Step("from_days_since_epoch", overflow,
                [days |-> sc.cycles, secs |-> sc.remainder, overflow |-> overflow])

\* The LocalDateTime at_ms returns, of the date and the time computed.
DateTimeOutcome(date, time) ==
    Outcome(arg.build, res.overflow \cup date.overflow,
            [date |-> date.date, time |-> time])

\* LocalDateTime { date: LocalDate::from_days_since_epoch(days), time: ... }
AtMsDateTime ==
    /\ pc = "from_days_since_epoch"
    /\ res' = DateTimeOutcome(
                  from_days_since_epoch_i64(res.days),
                  from_seconds_and_milliseconds_since_midnight(res.secs, 0))
    /\ pc' = "done"
    /\ UNCHANGED <<op, arg, tz>>

DateOutcome(date) == Outcome(arg.build, date.overflow, date.date)

FromDaysSinceEpochI64 ==
    Return("from_days_since_epoch_i64",
           DateOutcome(from_days_since_epoch_i64(arg.days)))

I64Next ==
    \/ AtMsSeconds \/ AtMsSplitCycles \/ AtMsDateTime
    \/ FromDaysSinceEpochI64

I64Spec == I64Init /\ [][I64Next]_vars

\* The date-time the test the_end_of_time expects of at(i64::MAX).
TheEndOfTime ==
    [ymd  |-> YMD(Big(FALSE, <<0, 0, 0, 292, 277, 26, 596>>), 12, 4),
     time |-> LocalTime(15, 30, 7, 0)]

\* C30: for every i64 input, i64::MIN and i64::MAX included,
\* LocalDateTime::at(s) and from_days_since_epoch(d) compute their result
\* without any intermediate i64 value overflowing, and at(i64::MAX) is
\* 292277026596-12-04T15:30:07.
C30_NoOverflowOverI64 ==
    /\ (Done("at_i64") \/ Done("from_days_since_epoch_i64")) =>
          res.overflow = {} /\ res.value # Panic
    /\ (Done("at_i64") /\ arg.seconds_since_1970_epoch = I64_MAX) =>
          /\ res.value.date.ymd = TheEndOfTime.ymd
          /\ res.value.time = TheEndOfTime.time

====
